---- MODULE Spec2Model ----
(***************************************************************************)
(* Model of src/codecs/basic/cd_esp.cc: the ESP codec's EspCodec::decode   *)
(* and its peg-count hooks (counts, gcounts, sum).                         *)
(*                                                                         *)
(* Addresses are integers.  The input buffer is the len bytes starting at  *)
(* raw_pkt; its two trailer bytes (pad length at len-14, next header at    *)
(* len-13) are inputs, every other byte is 0.       packet_flags is the   *)
(* set of flag bits that are set, so OR-ing a bit in is set union.         *)
(***************************************************************************)
EXTENDS Integers, Sequences, FiniteSets, TLC

VARIABLES
    esp_decoding,   \* the configuration answer of ScESPDecoding() (line 98)
    codecs,         \* protocol ids PacketManager::has_codec() answers true for (line 144)
    arg,            \* the latest decode call: raw_pkt, len and the buffer's trailer bytes
    old,            \* p, lyr_len, next_prot_id as they were before that call
    p,              \* the Packet after the call: packet_flags, data, dsize
    lyr_len,        \* the caller's uint16_t lyr_len after the call
    next_prot_id,   \* the caller's int next_prot_id after the call
    ret,            \* the call's return value
    reads,          \* addresses the call dereferenced
    queries,        \* protocol ids the call passed to has_codec, in order
    events,         \* decoder events emitted so far, in order
    counts,         \* THREAD_LOCAL CdPegs counts, one per worker thread (line 72)
    gcounts,        \* static CdPegs gcounts (line 73)
    calls,          \* per worker: decode calls made so far, by class
    incs            \* per peg: increments made to thread-local counters so far

vars == <<esp_decoding, codecs, arg, old, p, lyr_len, next_prot_id, ret,
          reads, queries, events, counts, gcounts, calls, incs>>

pktVars == <<arg, old, p, lyr_len, next_prot_id, ret, reads, queries, events, calls>>

(***************************************************************************)
(* Bounds and input sets                                                   *)
(***************************************************************************)
MaxCalls == 2
MaxIncs == 3

Workers == {"w1", "w2"}
RawPkts == {1000}
Lens == {0, 21, 22, 30, 255, 256, 65535}
PadBytes == {0, 1, 8, 9, 30, 255}
NextHdrBytes == {6, 255}
Registries == {{6}, {6, 255}}

PegNames == {"processed", "discards"}
CallClasses == {"processed", "discards", "disabled"}

\* Packets as the caller may hand them in, with the caller's out-parameters.
PreStates ==
    { [p |-> [packet_flags |-> {}, data |-> 0, dsize |-> 0],
       lyr_len |-> 0, next_prot_id |-> -1],
      [p |-> [packet_flags |-> {"PKT_FRAG"}, data |-> 980, dsize |-> 60],
       lyr_len |-> 20, next_prot_id |-> 50] }

(***************************************************************************)
(* Program constants and integer conversions                               *)
(***************************************************************************)
ESP_HEADER_LEN == 8
ESP_AUTH_DATA_LEN == 12
ESP_TRAILER_LEN == 2

uint16(x) == x % (2^16)

ZeroPegs == [k \in PegNames |-> 0]

(***************************************************************************)
(* External collaborators as decode sees them                              *)
(***************************************************************************)
ScESPDecoding == esp_decoding

has_codec(id) == id \in codecs

\* codec_events::decoder_event(p, sid): one more event on the record.
decoder_event(c, sid) == [c EXCEPT !.events = Append(@, sid)]

\* The byte stored at address a of the buffer [raw_pkt, raw_pkt + len).
BufByte(raw_pkt, len, buf, a) ==
    IF a = raw_pkt + len - 14 THEN buf.pad
    ELSE IF a = raw_pkt + len - 13 THEN buf.nh
    ELSE 0

\* *a: the value read, and the address noted as read.
Deref(raw_pkt, len, buf, c, a) ==
    [val |-> BufByte(raw_pkt, len, buf, a),
     ctx |-> [c EXCEPT !.reads = @ \cup {a}]]

(***************************************************************************)
(* EspCodec::decode.  c is the state the call works on: the Packet p, the  *)
(* caller's lyr_len and next_prot_id, the return value, and the record of  *)
(* the reads, registry queries and decoder events the call has made.       *)
(***************************************************************************)

\* if (len < (ESP_HEADER_LEN + ESP_AUTH_DATA_LEN + ESP_TRAILER_LEN))
HeaderTrunc_NoTrailer(len) == len < ESP_HEADER_LEN + ESP_AUTH_DATA_LEN

HeaderTrunc(len) == len < ESP_HEADER_LEN + ESP_AUTH_DATA_LEN + ESP_TRAILER_LEN

\* The truncated branch: event, payload = the whole buffer, return false.
TruncPath_NoData(raw_pkt, len, c) ==
    [decoder_event(c, "DECODE_ESP_HEADER_TRUNC")
        EXCEPT !.p.dsize = uint16(len), !.ret = FALSE]

TruncPath(raw_pkt, len, c) ==
    [decoder_event(c, "DECODE_ESP_HEADER_TRUNC")
        EXCEPT !.p.data = raw_pkt, !.p.dsize = uint16(len), !.ret = FALSE]

\* lyr_len = 22; pad_length = *(esp_payload + len - lyr_len);
\* next_prot_id = *(esp_payload + len + 1 - lyr_len);
ReadTrailer(raw_pkt, len, buf, c) ==
    LET esp_payload == raw_pkt + ESP_HEADER_LEN
        c1 == [c EXCEPT !.lyr_len =
                 uint16(ESP_HEADER_LEN + ESP_AUTH_DATA_LEN + ESP_TRAILER_LEN)]
        r1 == Deref(raw_pkt, len, buf, c1, esp_payload + len - c1.lyr_len)
        r2 == Deref(raw_pkt, len, buf, r1.ctx, esp_payload + len + 1 - c1.lyr_len)
    IN  [esp_payload |-> esp_payload,
         pad_length  |-> r1.val,
         ctx         |-> [r2.ctx EXCEPT !.next_prot_id = r2.val]]

\* The else branch of (pad_length < len): trusted, opaque payload.
OpaquePath_KeepNext(esp_payload, len, c) ==
    [c EXCEPT !.p.packet_flags = @ \cup {"PKT_TRUST"},
              !.p.data = esp_payload,
              !.p.dsize = uint16(uint16(len) - c.lyr_len),
              !.ret = TRUE]

OpaquePath_ToEnd(esp_payload, len, c) ==
    [c EXCEPT !.p.packet_flags = @ \cup {"PKT_TRUST"},
              !.p.data = esp_payload,
              !.p.dsize = uint16(uint16(len) - ESP_HEADER_LEN),
              !.next_prot_id = -1,
              !.ret = TRUE]

OpaquePath(esp_payload, len, c) ==
    [c EXCEPT !.p.packet_flags = @ \cup {"PKT_TRUST"},
              !.p.data = esp_payload,
              !.p.dsize = uint16(uint16(len) - c.lyr_len),
              !.next_prot_id = -1,
              !.ret = TRUE]

\* if (!PacketManager::has_codec(next_prot_id)) ... else ...; return true
RegistryPath_AlwaysView(esp_payload, len, c) ==
    LET c1 == [c EXCEPT !.queries = Append(@, c.next_prot_id), !.ret = TRUE]
    IN  IF ~has_codec(c.next_prot_id)
        THEN [c1 EXCEPT !.p.packet_flags = @ \cup {"PKT_UNSURE_ENCAP"},
                        !.p.data = esp_payload,
                        !.p.dsize = uint16(uint16(len) - c.lyr_len)]
        ELSE [c1 EXCEPT !.p.packet_flags = @ \cup {"PKT_TRUST"},
                        !.p.data = esp_payload,
                        !.p.dsize = uint16(uint16(len) - c.lyr_len)]

RegistryPath(esp_payload, len, c) ==
    LET c1 == [c EXCEPT !.queries = Append(@, c.next_prot_id), !.ret = TRUE]
    IN  IF ~has_codec(c.next_prot_id)
        THEN [c1 EXCEPT !.p.packet_flags = @ \cup {"PKT_UNSURE_ENCAP"}]
        ELSE [c1 EXCEPT !.p.packet_flags = @ \cup {"PKT_TRUST"},
                        !.p.data = esp_payload,
                        !.p.dsize = uint16(uint16(len) - c.lyr_len)]

\* Everything after the truncation check.
DecodeBody(raw_pkt, len, buf, c) ==
    LET t == ReadTrailer(raw_pkt, len, buf, c)
    IN  IF t.pad_length < len
        THEN RegistryPath(t.esp_payload, len,
                 [t.ctx EXCEPT !.lyr_len = uint16(@ + t.pad_length)])
        ELSE OpaquePath(t.esp_payload, len, t.ctx)

decode_TruncFirst(raw_pkt, len, buf, c) ==
    IF HeaderTrunc(len) THEN TruncPath(raw_pkt, len, c)
    ELSE IF ~ScESPDecoding THEN [c EXCEPT !.ret = FALSE]
    ELSE DecodeBody(raw_pkt, len, buf, c)

decode(raw_pkt, len, buf, c) ==
    IF ~ScESPDecoding THEN [c EXCEPT !.ret = FALSE]
    ELSE IF HeaderTrunc(len) THEN TruncPath(raw_pkt, len, c)
    ELSE DecodeBody(raw_pkt, len, buf, c)

(***************************************************************************)
(* Peg counts                                                              *)
(***************************************************************************)

\* sum_stats(gcounts, counts, n): add the thread's pegs to the totals.
sum_stats(g, t) == [k \in PegNames |-> g[k] + t[k]]

\* memset(&counts, 0, sizeof(counts))
memset_Skipped(t) == t

memset(t) == ZeroPegs

(***************************************************************************)
(* Ghost bookkeeping: how many decode calls of each class were made        *)
(***************************************************************************)
RECURSIVE SumOver(_, _)
SumOver(f, S) ==
    IF S = {} THEN 0
    ELSE LET x == CHOOSE y \in S : TRUE IN f[x] + SumOver(f, S \ {x})

CallsOf(class) == SumOver([w \in Workers |-> calls[w][class]], Workers)
CallsBy(w) == calls[w]["processed"] + calls[w]["discards"] + calls[w]["disabled"]
TotalCalls == SumOver([w \in Workers |-> CallsBy(w)], Workers)
PrivateTotal(k) == SumOver([w \in Workers |-> counts[w][k]], Workers)
TotalIncs == incs["processed"] + incs["discards"]

CallClass(len) ==
    IF ~esp_decoding THEN "disabled"
    ELSE IF len < 22 THEN "discards"
    ELSE "processed"

(***************************************************************************)
(* The state machine                                                       *)
(***************************************************************************)
Init ==
    /\ esp_decoding \in BOOLEAN
    /\ codecs \in Registries
    /\ arg = [raw_pkt |-> 0, len |-> 0, pad |-> 0, nh |-> 0]
    /\ old = [p |-> [packet_flags |-> {}, data |-> 0, dsize |-> 0],
              lyr_len |-> 0, next_prot_id |-> -1]
    /\ p = [packet_flags |-> {}, data |-> 0, dsize |-> 0]
    /\ lyr_len = 0
    /\ next_prot_id = -1
    /\ ret = FALSE
    /\ reads = {}
    /\ queries = <<>>
    /\ events = <<>>
    /\ counts = [w \in Workers |-> ZeroPegs]
    /\ gcounts = ZeroPegs
    /\ calls = [w \in Workers |-> [k \in CallClasses |-> 0]]
    /\ incs = ZeroPegs

\* Worker w calls decode(raw_pkt, len, p, lyr_len, next_prot_id) on a packet
\* in state pre, the buffer holding pad and nh in its trailer.
Decode(w, raw_pkt, len, pad, nh, pre) ==
    /\ TotalCalls < MaxCalls
    /\ \E c \in {decode(raw_pkt, len, [pad |-> pad, nh |-> nh],
                     [p |-> pre.p, lyr_len |-> pre.lyr_len,
                      next_prot_id |-> pre.next_prot_id, ret |-> FALSE,
                      reads |-> {}, queries |-> <<>>, events |-> events])} :
           /\ p' = c.p
           /\ lyr_len' = c.lyr_len
           /\ next_prot_id' = c.next_prot_id
           /\ ret' = c.ret
           /\ reads' = c.reads
           /\ queries' = c.queries
           /\ events' = c.events
    /\ arg' = [raw_pkt |-> raw_pkt, len |-> len, pad |-> pad, nh |-> nh]
    /\ old' = pre
    /\ calls' = [calls EXCEPT ![w][CallClass(len)] = @ + 1]
    /\ UNCHANGED <<esp_decoding, codecs, counts, gcounts, incs>>

\* Worker w runs the sum() hook: sum_stats, then memset, as one step.  The
\* hook writes gcounts, which only sum() touches and which is never run
\* concurrently with itself, and w's own thread-local counts, which no other
\* thread can reach, so no step of another worker falls between the two.
Sum(w) ==
    /\ gcounts' = sum_stats(gcounts, counts[w])
    /\ counts' = [counts EXCEPT ![w] = memset(@)]
    /\ UNCHANGED <<esp_decoding, codecs, incs>>
    /\ UNCHANGED pktVars

\* Worker w adds one to peg k of its own thread-local counts.
PegIncrement(w, k) ==
    /\ TotalIncs < MaxIncs
    /\ counts' = [counts EXCEPT ![w][k] = @ + 1]
    /\ incs' = [incs EXCEPT ![k] = @ + 1]
    /\ UNCHANGED <<esp_decoding, codecs, gcounts>>
    /\ UNCHANGED pktVars

DecodeStep ==
    \E w \in Workers, raw_pkt \in RawPkts, len \in Lens, pad \in PadBytes,
       nh \in NextHdrBytes, pre \in PreStates :
        Decode(w, raw_pkt, len, pad, nh, pre)

SumStep == \E w \in Workers : Sum(w)

PegStep == \E w \in Workers, k \in PegNames : PegIncrement(w, k)

Next == DecodeStep \/ SumStep

Spec == Init /\ [][Next]_vars

\* The peg hooks with workers counting in their own thread-local pegs.
SumNext == PegStep \/ SumStep

SumSpec == Init /\ [][SumNext]_vars

(***************************************************************************)
(* Which path the latest decode call took, read off its arguments.  The    *)
(* pad-length byte is the buffer's byte at offset len-14 (arg.pad), the    *)
(* next-header byte the one at offset len-13 (arg.nh).                     *)
(***************************************************************************)
Called == TotalCalls > 0
LenInRange == 22 <= arg.len /\ arg.len <= 65535
DisabledCall == Called /\ ~esp_decoding
TruncatedCall == Called /\ esp_decoding /\ arg.len < 22
OpaqueCall == Called /\ esp_decoding /\ LenInRange /\ arg.pad >= arg.len
DecodableCall ==
    Called /\ esp_decoding /\ LenInRange /\ arg.pad < arg.len /\ arg.nh \in codecs
AmbiguousCall ==
    Called /\ esp_decoding /\ LenInRange /\ arg.pad < arg.len /\ arg.nh \notin codecs

\* A step that is one decode call.
IsDecodeStep == TotalCalls' = TotalCalls + 1

(***************************************************************************)
(* C1: with decoding enabled, a decode call with len < 22 returns false,   *)
(* sets the payload view to the whole input buffer (data = raw_pkt,        *)
(* dsize = len) and leaves packet_flags, lyr_len and next_prot_id as they  *)
(* were; the events on record are DECODE_ESP_HEADER_TRUNC events and there *)
(* are exactly as many of them as there were such calls, so each truncated *)
(* call emits one and no other call emits any.                             *)
(***************************************************************************)
C1_TruncatedRejected ==
    /\ TruncatedCall =>
          /\ ret = FALSE
          /\ p.data = arg.raw_pkt
          /\ p.dsize = arg.len
          /\ p.packet_flags = old.p.packet_flags
          /\ lyr_len = old.lyr_len
          /\ next_prot_id = old.next_prot_id
    /\ Len(events) = CallsOf("discards")
    /\ \A i \in 1..Len(events) : events[i] = "DECODE_ESP_HEADER_TRUNC"

C1_Witness ==
    /\ TruncatedCall
    /\ arg.len = 21
    /\ old.p.data # arg.raw_pkt
    /\ Len(events) = 1
    /\ CallsOf("processed") = 1

(***************************************************************************)
(* C2: with decoding disabled, every decode call returns false, reads no   *)
(* byte, asks the registry nothing, and leaves the packet, lyr_len and     *)
(* next_prot_id as they were; no decode step changes a peg counter or the  *)
(* event record; and a call repeated with the same input on the same       *)
(* packet state has the same outcome.                                      *)
(***************************************************************************)
C2_DisabledState ==
    DisabledCall =>
        /\ ret = FALSE
        /\ p = old.p
        /\ lyr_len = old.lyr_len
        /\ next_prot_id = old.next_prot_id
        /\ reads = {}
        /\ queries = <<>>
        /\ events = <<>>

C2_DisabledStep ==
    (IsDecodeStep /\ ~esp_decoding) =>
        /\ counts' = counts
        /\ gcounts' = gcounts
        /\ events' = events
        /\ (Called /\ arg' = arg /\ old' = old) =>
               /\ ret' = ret
               /\ p' = p
               /\ lyr_len' = lyr_len
               /\ next_prot_id' = next_prot_id

C2_DisabledNoEffect == [](C2_DisabledState) /\ [][C2_DisabledStep]_vars

C2_Witness ==
    /\ DisabledCall
    /\ TotalCalls = 2
    /\ arg.len < 22
    /\ old.p.data # arg.raw_pkt

(***************************************************************************)
(* C3: with decoding enabled and 22 <= len <= 65535, a pad-length byte     *)
(* >= len gives the Opaque outcome: decode returns true, PKT_TRUST is      *)
(* added to packet_flags and nothing else is, the payload view starts at   *)
(* raw_pkt + 8 with size len - 22, next_prot_id is -1, and the registry is *)
(* not asked.                                                              *)
(***************************************************************************)
C3_Opaque ==
    OpaqueCall =>
        /\ ret = TRUE
        /\ p.packet_flags = old.p.packet_flags \cup {"PKT_TRUST"}
        /\ "PKT_UNSURE_ENCAP" \notin p.packet_flags
        /\ p.data = arg.raw_pkt + 8
        /\ p.dsize = arg.len - 22
        /\ next_prot_id = -1
        /\ queries = <<>>

C3_Witness ==
    /\ OpaqueCall
    /\ arg.len = 30
    /\ arg.pad = 30
    /\ arg.nh \in codecs
    /\ old.next_prot_id = 50

(***************************************************************************)
(* C4: with decoding enabled and 22 <= len <= 65535, a pad-length byte     *)
(* < len and a next-header byte the registry has a decoder for give the    *)
(* Decodable outcome: true, PKT_TRUST added, lyr_len = 22 + pad_length,    *)
(* next_prot_id = the next-header byte, payload view at raw_pkt + 8 with   *)
(* size len - (22 + pad_length).                                           *)
(***************************************************************************)
C4_Decodable ==
    DecodableCall =>
        /\ ret = TRUE
        /\ p.packet_flags = old.p.packet_flags \cup {"PKT_TRUST"}
        /\ lyr_len = 22 + arg.pad
        /\ next_prot_id = arg.nh
        /\ next_prot_id \in 0..255
        /\ p.data = arg.raw_pkt + 8
        /\ p.dsize = arg.len - (22 + arg.pad)

C6_OpaqueViewToEnd ==
    (Called /\ esp_decoding /\ arg.len >= 22 /\ arg.pad >= arg.len) =>
        /\ p.data = arg.raw_pkt + 8
        /\ p.dsize = arg.len - 8

(***************************************************************************)
(* C6 amended: on the Opaque outcome the payload view starts at            *)
(* raw_pkt + 8 and ends at raw_pkt + len - 14, where the pad-length byte   *)
(* is: it leaves out the two trailer bytes and the 12 bytes of             *)
(* authentication data.                                                    *)
(***************************************************************************)
C6_OpaqueViewToTrailer ==
    (Called /\ esp_decoding /\ arg.len >= 22 /\ arg.pad >= arg.len) =>
        /\ p.data = arg.raw_pkt + 8
        /\ p.data + p.dsize = arg.raw_pkt + arg.len - 14

C6_Witness ==
    /\ Called /\ esp_decoding
    /\ arg.len = 255
    /\ arg.pad = 255
    /\ p.dsize = 233

(***************************************************************************)
(* C7: the peg counters track the decode calls: processed (private plus    *)
(* aggregated) is the number of calls that passed the truncation check,    *)
(* discards the number of truncated calls; disabled calls count nowhere.   *)
(***************************************************************************)
C7_PegsTrackCalls ==
    \A k \in PegNames : gcounts[k] + PrivateTotal(k) = CallsOf(k)

(***************************************************************************)
(* C8: aggregation loses and duplicates nothing: the global total plus all *)
(* workers' private counters is the number of increments made; every step  *)
(* that changes the global total or lowers a private counter is one sum()  *)
(* by one worker w, adding exactly w's private counters to the total and   *)
(* zeroing w's counters only; the global total never decreases.            *)
(***************************************************************************)
C8_Conserved ==
    \A k \in PegNames : gcounts[k] + PrivateTotal(k) = incs[k]

C8_SumExact ==
    /\ \A k \in PegNames : gcounts'[k] >= gcounts[k]
    /\ (gcounts' # gcounts \/ \E w \in Workers, k \in PegNames :
                                  counts'[w][k] < counts[w][k]) =>
          \E w \in Workers :
              /\ \A k \in PegNames : gcounts'[k] = gcounts[k] + counts[w][k]
              /\ counts' = [counts EXCEPT ![w] = ZeroPegs]

C9_ReadsInBuffer ==
    Called =>
        /\ reads \subseteq {arg.raw_pkt + arg.len - 14, arg.raw_pkt + arg.len - 13}
        /\ reads # {} => (esp_decoding /\ arg.len >= 22)
        /\ \A a \in reads : 8 <= a - arg.raw_pkt /\ a - arg.raw_pkt < arg.len
        /\ (esp_decoding /\ arg.len >= 22) => Cardinality(reads) = 2

C9_Witness ==
    /\ Called
    /\ arg.len = 22
    /\ reads = {arg.raw_pkt + 8, arg.raw_pkt + 9}

(***************************************************************************)
(* C10: on every decode call that returns true (22 <= len <= 65535) the    *)
(* consumed length lyr_len is at most len, and a payload view set by the   *)
(* call lies inside the input buffer: 8 + dsize <= len.                    *)
(***************************************************************************)
C10_ConsumedWithinLen ==
    (Called /\ ret = TRUE /\ LenInRange) =>
        /\ lyr_len <= arg.len
        /\ p.data = arg.raw_pkt + 8 => 8 + p.dsize <= arg.len

====
